---- MODULE Spec2Model ----
(***************************************************************************)
(* Model of advanced-vector/vector.h: RawMemory<T> (an owner of            *)
(* uninitialized storage) and Vector<T> (the container built on it).       *)
(*                                                                         *)
(* The heap is a finite set of blocks; a block is a sequence of slots.     *)
(* A slot holds RAW (no object lives there), MOVED (a live, moved-from     *)
(* object whose value is unspecified) or the value of a live object.       *)
(* Every member function is one action.  Its inputs include the element    *)
(* type's exceptions: input f names the fallible step of the call that     *)
(* throws (0: none).  Variable traits is the element type: whether its     *)
(* move operations are noexcept and whether it can be copied.              *)
(***************************************************************************)
EXTENDS Integers, Sequences, FiniteSets, TLC

\* ---------------------------------------------------------------- bounds
MaxVal == 1
MaxCap == 4
NVec == 2
NBlocks == 3
MaxAppends == 5
MaxThrows == 1

\* ------------------------------------------------------ slots and blocks
RAW == -2
MOVED == -1
DefaultVal == 0

Values == 0..MaxVal
Vecs == 1..NVec
Blocks == 1..NBlocks

VARIABLES heap, vecs, traits, last, ghost
vars == <<heap, vecs, traits, last, ghost>>

Min(a, b) == IF a < b THEN a ELSE b

\* the value read from a slot: reading a slot without a live object is
\* undefined and yields an unspecified value
Val(x) == IF x = RAW THEN MOVED ELSE x

RawN(n) == [i \in 1..n |-> RAW]

\* a move leaves its source moved-from (a slot without an object stays so)
MovedSlot(x) == IF x = RAW THEN RAW ELSE MOVED

\* blk with the slots off+1 .. off+Len(xs) replaced by xs
Put(blk, off, xs) ==
    [i \in 1..Len(blk) |->
        IF off < i /\ i <= off + Len(xs) THEN xs[i - off] ELSE blk[i]]

\* the number of steps left before the throwing one, after n fallible steps
After(f, n) == IF f > n THEN f - n ELSE 0

\* std::destroy_n(buf + off, n)
DestroyN(blk, off, n) == Put(blk, off, RawN(n))

Live(blk) == Cardinality({i \in DOMAIN blk : blk[i] # RAW})

\* ------------------------------------------------------------- RawMemory
Blk(h, p) == IF p = 0 THEN <<>> ELSE h[p]
SetBlk(h, p, blk) == IF p = 0 THEN h ELSE [h EXCEPT ![p] = blk]
FreeIds(h) == {b \in Blocks : h[b] = <<>>}

\* RawMemory(capacity) / Allocate: a null block for 0, else a fresh block of
\* n uninitialized slots; operator new throws when step f = 1 fails or no
\* memory is left
Allocate(h, n, f) ==
    IF n = 0 THEN [ok |-> TRUE, p |-> 0, heap |-> h, f |-> f]
    ELSE IF f = 1 \/ FreeIds(h) = {} THEN [ok |-> FALSE, p |-> 0, heap |-> h, f |-> 0]
    ELSE LET p == CHOOSE b \in FreeIds(h) : \A c \in FreeIds(h) : b <= c
         IN [ok |-> TRUE, p |-> p, heap |-> [h EXCEPT ![p] = RawN(n)], f |-> After(f, 1)]

\* ~RawMemory / Deallocate: the block is released, whatever its slots hold
Deallocate(h, p) == SetBlk(h, p, <<>>)

\* the live objects a release of block p abandons
Abandoned(h, p) == Live(Blk(h, p))

\* ------------------------------------------------- <memory> algorithms
\* mutant of UninitializedCopyN: after a throwing copy the elements copied so
\* far are destroyed in the source, not in the destination
UninitializedCopyNUndoesSource(src, so, n, dst, do, f) ==
    IF 1 <= f /\ f <= n
    THEN [ok |-> FALSE, src |-> DestroyN(src, so, f - 1),
          dst |-> Put(dst, do, [i \in 1..(f - 1) |-> Val(src[so + i])]), f |-> 0]
    ELSE [ok |-> TRUE, src |-> src,
          dst |-> Put(dst, do, [i \in 1..n |-> Val(src[so + i])]),
          f |-> After(f, n)]

\* std::uninitialized_copy_n(src + so, n, dst + do): a throwing copy of
\* element k destroys the k-1 copies made and leaves the source as it was
UninitializedCopyN(src, so, n, dst, do, f) ==
    IF 1 <= f /\ f <= n
    THEN [ok |-> FALSE, src |-> src, dst |-> DestroyN(dst, do, f - 1), f |-> 0]
    ELSE [ok |-> TRUE, src |-> src,
          dst |-> Put(dst, do, [i \in 1..n |-> Val(src[so + i])]),
          f |-> After(f, n)]

\* std::uninitialized_move_n(src + so, n, dst + do): a throwing move of
\* element k destroys the k-1 objects made; their sources stay moved-from
UninitializedMoveN(src, so, n, dst, do, f, nothrow) ==
    IF ~nothrow /\ 1 <= f /\ f <= n
    THEN [ok |-> FALSE,
          src |-> Put(src, so, [i \in 1..(f - 1) |-> MovedSlot(src[so + i])]),
          dst |-> DestroyN(dst, do, f - 1), f |-> 0]
    ELSE [ok |-> TRUE,
          src |-> Put(src, so, [i \in 1..n |-> MovedSlot(src[so + i])]),
          dst |-> Put(dst, do, [i \in 1..n |-> Val(src[so + i])]),
          f |-> IF nothrow THEN f ELSE After(f, n)]

\* mutant of ValueConstructN: the objects are default-initialized, which
\* leaves their value indeterminate
DefaultConstructN(blk, off, n, f) ==
    IF 1 <= f /\ f <= n
    THEN [ok |-> FALSE, blk |-> DestroyN(blk, off, f - 1), f |-> 0]
    ELSE [ok |-> TRUE, blk |-> Put(blk, off, [i \in 1..n |-> MOVED]),
          f |-> After(f, n)]

\* std::uninitialized_value_construct_n(buf + off, n): a throwing
\* constructor of element k destroys the k-1 objects made
ValueConstructN(blk, off, n, f) ==
    IF 1 <= f /\ f <= n
    THEN [ok |-> FALSE, blk |-> DestroyN(blk, off, f - 1), f |-> 0]
    ELSE [ok |-> TRUE, blk |-> Put(blk, off, [i \in 1..n |-> DefaultVal]),
          f |-> After(f, n)]

\* blk after t steps of an element-wise move of [first, lst) one slot to the
\* right, last element first: step k assigns element lst - k to slot lst - k + 1
ShiftedRight(blk, first, lst, t) ==
    [i \in 1..Len(blk) |->
        IF lst - t + 1 < i /\ i <= lst + 1 THEN Val(blk[i - 1])
        ELSE IF i = lst - t + 1 /\ t > 0 THEN MovedSlot(blk[i])
        ELSE blk[i]]

\* mutant of MoveBackward: the elements are moved first element first, so each
\* step reads the slot the step before it wrote
MoveAscending(blk, first, lst, f, nothrow) ==
    [ok |-> TRUE,
     blk |-> [i \in 1..Len(blk) |->
                IF first + 1 < i /\ i <= lst + 1 THEN Val(blk[first + 1]) ELSE blk[i]],
     f |-> f]

\* std::move_backward(buf + first, buf + lst, buf + lst + 1): move assignment
\* element by element, which throws at step f unless T's moves are noexcept
MoveBackward(blk, first, lst, f, nothrow) ==
    IF ~nothrow /\ 1 <= f /\ f <= lst - first
    THEN [ok |-> FALSE, blk |-> ShiftedRight(blk, first, lst, f - 1), f |-> 0]
    ELSE [ok |-> TRUE, blk |-> ShiftedRight(blk, first, lst, lst - first),
          f |-> IF nothrow THEN f ELSE After(f, lst - first)]

\* blk after t steps of an element-wise move of [first, lst) one slot to the
\* left, first element first: step k assigns element first + k - 1 to the slot
\* before it
ShiftedLeft(blk, first, lst, t) ==
    [i \in 1..Len(blk) |->
        IF first <= i /\ i < first + t THEN Val(blk[i + 1])
        ELSE IF i = first + t /\ t > 0 THEN MovedSlot(blk[i])
        ELSE blk[i]]

\* mutant of MoveForward: the destination is the first element moved, so
\* nothing is shifted
MoveOntoItself(blk, first, lst, f, nothrow) == [ok |-> TRUE, blk |-> blk, f |-> f]

\* std::move(buf + first, buf + lst, buf + first - 1)
MoveForward(blk, first, lst, f, nothrow) ==
    IF ~nothrow /\ 1 <= f /\ f <= lst - first
    THEN [ok |-> FALSE, blk |-> ShiftedLeft(blk, first, lst, f - 1), f |-> 0]
    ELSE [ok |-> TRUE, blk |-> ShiftedLeft(blk, first, lst, lst - first),
          f |-> IF nothrow THEN f ELSE After(f, lst - first)]

\* mutant of CopyOrMove: the elements are moved whatever the element type
CopyOrMoveByMove(src, so, n, dst, do, f, tr) ==
    LET m == UninitializedMoveN(src, so, n, dst, do, f, tr.nothrowMove)
    IN IF m.ok THEN [m EXCEPT !.src = DestroyN(m.src, so, n)] ELSE m

\* Vector::CopyOrMove(from, size, to): move when T's move constructor is
\* noexcept or T cannot be copied, else copy; then destroy the sources
CopyOrMove(src, so, n, dst, do, f, tr) ==
    LET m == IF tr.nothrowMove \/ ~tr.copyable
             THEN UninitializedMoveN(src, so, n, dst, do, f, tr.nothrowMove)
             ELSE UninitializedCopyN(src, so, n, dst, do, f)
    IN IF m.ok THEN [m EXCEPT !.src = DestroyN(m.src, so, n)] ELSE m

\* ---------------------------------------------------------------- Vector
NoVec == [alive |-> FALSE, buf |-> 0, cap |-> 0, size |-> 0]
EmptyVec == [alive |-> TRUE, buf |-> 0, cap |-> 0, size |-> 0]

\* what a call leaves behind: the heap, the vectors, how it ended ("ok" or
\* the step that threw), the index it returned, the live objects it released
\* with their block, the fallible steps left before the throwing one
Result(h, vs, out, ret, lost, f) ==
    [heap |-> h, vecs |-> vs, out |-> out, ret |-> ret, lost |-> lost, f |-> f]

\* mutant of Adopt: the buffers are exchanged and the capacities are not
AdoptKeepsCap(h, vs, v, p, n, grow, f) ==
    Result(Deallocate(h, vs[v].buf),
           [vs EXCEPT ![v] = [@ EXCEPT !.buf = p, !.size = @ + grow]],
           "ok", 0, Abandoned(h, vs[v].buf), f)

\* data_.Swap(new_data) and the end of new_data's scope: vector v takes block
\* p of capacity n, its former block is released
Adopt(h, vs, v, p, n, grow, f) ==
    Result(Deallocate(h, vs[v].buf),
           [vs EXCEPT ![v] = [@ EXCEPT !.buf = p, !.cap = n, !.size = @ + grow]],
           "ok", 0, Abandoned(h, vs[v].buf), f)

\* an exception leaves the scope of new_data: block p is released and the
\* vector keeps its block
Abandon(h, vs, p, out) == Result(Deallocate(h, p), vs, out, 0, Abandoned(h, p), 0)

\* mutant of Reserve: the old block is released before the new one is
\* allocated
ReserveReleasesFirst(h, vs, v, n, f, tr) ==
    LET d == vs[v]
        a == Allocate(h, n, f)
        m == CopyOrMove(Blk(h, d.buf), 0, d.size, Blk(a.heap, a.p), 0, a.f, tr)
        h1 == SetBlk(SetBlk(a.heap, d.buf, m.src), a.p, m.dst)
    IN IF n <= d.cap THEN Result(h, vs, "ok", 0, 0, f)
       ELSE IF ~a.ok
            THEN Result(Deallocate(h, d.buf), [vs EXCEPT ![v] = EmptyVec], "alloc", 0,
                        Abandoned(h, d.buf), 0)
       ELSE IF ~m.ok THEN Abandon(h1, vs, a.p, "migrate")
       ELSE Adopt(h1, vs, v, a.p, n, 0, m.f)

\* Vector::Reserve(new_capacity)
Reserve(h, vs, v, n, f, tr) ==
    LET d == vs[v]
        a == Allocate(h, n, f)
        m == CopyOrMove(Blk(h, d.buf), 0, d.size, Blk(a.heap, a.p), 0, a.f, tr)
        h1 == SetBlk(SetBlk(a.heap, d.buf, m.src), a.p, m.dst)
    IN IF n <= d.cap THEN Result(h, vs, "ok", 0, 0, f)
       ELSE IF ~a.ok THEN Result(h, vs, "alloc", 0, 0, 0)
       ELSE IF ~m.ok THEN Abandon(h1, vs, a.p, "migrate")
       ELSE Adopt(h1, vs, v, a.p, n, 0, m.f)

\* mutant of NewCapacity: the block grows by one slot
GrowByOne(size) == size + 1

\* the capacity of the block a full vector of `size` elements grows into
NewCapacity(size) == IF size = 0 THEN 1 ELSE size * 2

\* the body shared by PushBack(const T&), PushBack(T&&) and EmplaceBack:
\* ctor says whether constructing the new element may throw
AppendElem(h, vs, v, x, f, tr, ctor) ==
    LET d == vs[v]
        a == Allocate(h, NewCapacity(d.size), f)
        nb == Put(Blk(a.heap, a.p), d.size, <<x>>)
        m == CopyOrMove(Blk(h, d.buf), 0, d.size, nb, 0,
                        IF ctor THEN After(a.f, 1) ELSE a.f, tr)
        h1 == SetBlk(SetBlk(a.heap, d.buf, m.src), a.p, m.dst)
    IN IF d.size = d.cap
       THEN IF ~a.ok THEN Result(h, vs, "alloc", 0, 0, 0)
            ELSE IF ctor /\ a.f = 1 THEN Abandon(a.heap, vs, a.p, "construct")
            ELSE IF ~m.ok THEN Abandon(h1, vs, a.p, "migrate")
            ELSE [Adopt(h1, vs, v, a.p, NewCapacity(d.size), 1, m.f)
                    EXCEPT !.ret = d.size]
       ELSE IF ctor /\ f = 1 THEN Result(h, vs, "construct", 0, 0, 0)
            ELSE Result(SetBlk(h, d.buf, Put(Blk(h, d.buf), d.size, <<x>>)),
                        [vs EXCEPT ![v].size = d.size + 1], "ok", d.size, 0,
                        IF ctor THEN After(f, 1) ELSE f)

\* mutant of PushBack: the in-place branch counts the element before it
\* constructs it
PushBackCountsFirst(h, vs, v, x, f, tr) ==
    LET r == AppendElem(h, vs, v, x, f, tr, TRUE)
    IN IF r.out = "construct" /\ vs[v].size < vs[v].cap
       THEN [r EXCEPT !.vecs[v].size = @ + 1] ELSE r

\* Vector::PushBack(const T&): the new element is copy-constructed
PushBack(h, vs, v, x, f, tr) == AppendElem(h, vs, v, x, f, tr, TRUE)

\* Vector::PushBack(T&&): the new element is move-constructed
PushBackRv(h, vs, v, x, f, tr) == AppendElem(h, vs, v, x, f, tr, ~tr.nothrowMove)

\* Vector::EmplaceBack(args...): the new element is constructed from args
EmplaceBack(h, vs, v, x, f, tr) == AppendElem(h, vs, v, x, f, tr, TRUE)

\* mutant of PopBack: the last element is destroyed and size_ is left as it was
PopBackKeepsSize(h, vs, v) ==
    Result(SetBlk(h, vs[v].buf, DestroyN(Blk(h, vs[v].buf), vs[v].size - 1, 1)),
           vs, "ok", 0, 0, 0)

\* Vector::PopBack()
PopBack(h, vs, v) ==
    LET d == vs[v]
    IN Result(SetBlk(h, d.buf, DestroyN(Blk(h, d.buf), d.size - 1, 1)),
              [vs EXCEPT ![v].size = d.size - 1], "ok", 0, 0, 0)

\* Vector::Emplace(pos, args...), pos = begin() + index
Emplace(h, vs, v, index, x, f, tr) ==
    LET d == vs[v]
        old == Blk(h, d.buf)
        nt == tr.nothrowMove
        \* the reallocating branch
        a == Allocate(h, NewCapacity(d.size), f)
        nb == Put(Blk(a.heap, a.p), index, <<x>>)
        m1 == CopyOrMove(old, 0, index, nb, 0, After(a.f, 1), tr)
        m2 == CopyOrMove(m1.src, index, d.size - index, m1.dst, index + 1, m1.f, tr)
        New(src, dst) == SetBlk(SetBlk(a.heap, d.buf, src), a.p, dst)
        \* the in-place branch: T temp_elem(args...), then the last element is
        \* move-constructed at end(), then the shift, then the assignment
        f1 == After(f, 1)
        atEnd == Put(old, d.size - 1, <<MovedSlot(old[d.size]), Val(old[d.size])>>)
        s == MoveBackward(atEnd, index, d.size - 1, IF nt THEN f1 ELSE After(f1, 1), nt)
    IN IF index = d.size THEN EmplaceBack(h, vs, v, x, f, tr)
       ELSE IF d.size = d.cap
       THEN IF ~a.ok THEN Result(h, vs, "alloc", 0, 0, 0)
            ELSE IF a.f = 1 THEN Abandon(a.heap, vs, a.p, "construct")
            ELSE IF ~m1.ok
                 THEN Abandon(New(m1.src, DestroyN(m1.dst, index, 1)), vs, a.p, "prefix")
            ELSE IF ~m2.ok
                 THEN Abandon(New(m2.src, DestroyN(m2.dst, 0, index + 1)), vs, a.p, "suffix")
            ELSE [Adopt(New(m2.src, m2.dst), vs, v, a.p, NewCapacity(d.size), 1, m2.f)
                    EXCEPT !.ret = index]
       ELSE IF f = 1 THEN Result(h, vs, "construct", 0, 0, 0)
            ELSE IF ~nt /\ f1 = 1 THEN Result(h, vs, "shift", 0, 0, 0)
            ELSE IF ~s.ok THEN Result(SetBlk(h, d.buf, s.blk), vs, "shift", 0, 0, 0)
            ELSE IF ~nt /\ s.f = 1 THEN Result(SetBlk(h, d.buf, s.blk), vs, "assign", 0, 0, 0)
            ELSE Result(SetBlk(h, d.buf, Put(s.blk, index, <<x>>)),
                        [vs EXCEPT ![v].size = d.size + 1], "ok", index, 0,
                        IF nt THEN s.f ELSE After(s.f, 1))

\* Vector::Insert(pos, const T&) and Insert(pos, T&&)
Insert(h, vs, v, index, x, f, tr) == Emplace(h, vs, v, index, x, f, tr)

\* the value read through a reference to element j of a block
Deref(blk, j) == Val(blk[j + 1])

\* v.PushBack(v[j]): the argument refers to element j of the vector itself;
\* the new element is copy-constructed from it before CopyOrMove runs
PushBackOwn(h, vs, v, j, f, tr) ==
    PushBack(h, vs, v, Deref(Blk(h, vs[v].buf), j), f, tr)

\* mutant of InsertOwn: the in-place branch has no temporary and assigns the
\* argument to its slot after the elements were shifted
InsertOwnAfterShift(h, vs, v, index, j, f, tr) ==
    LET d == vs[v]
        old == Blk(h, d.buf)
        atEnd == Put(old, d.size - 1, <<MovedSlot(old[d.size]), Val(old[d.size])>>)
        shifted == ShiftedRight(atEnd, index, d.size - 1, d.size - 1 - index)
    IN Insert(h, vs, v, index,
              IF index < d.size /\ d.size < d.cap THEN Deref(shifted, j) ELSE Deref(old, j),
              f, tr)

\* v.Insert(v.begin() + index, v[j]): the argument refers to element j of the
\* vector itself; Emplace constructs the new element (reallocating branch) or
\* temp_elem (in-place branch) from it before any element is migrated or
\* shifted
InsertOwn(h, vs, v, index, j, f, tr) ==
    Insert(h, vs, v, index, Deref(Blk(h, vs[v].buf), j), f, tr)

\* Vector::Erase(pos), pos = begin() + index
Erase(h, vs, v, index, f, tr) ==
    LET d == vs[v]
        s == MoveForward(Blk(h, d.buf), index + 1, d.size, f, tr.nothrowMove)
    IN IF ~s.ok THEN Result(SetBlk(h, d.buf, s.blk), vs, "shift", 0, 0, 0)
       ELSE Result(SetBlk(h, d.buf, DestroyN(s.blk, d.size - 1, 1)),
                   [vs EXCEPT ![v].size = d.size - 1], "ok", index, 0, s.f)

\* Vector::Resize(new_size)
Resize(h, vs, v, n, f, tr) ==
    LET d == vs[v]
        r == Reserve(h, vs, v, n, f, tr)
        e == r.vecs[v]
        c == ValueConstructN(Blk(r.heap, e.buf), d.size, n - d.size, r.f)
    IN IF n < d.size
       THEN Result(SetBlk(h, d.buf, DestroyN(Blk(h, d.buf), n, d.size - n)),
                   [vs EXCEPT ![v].size = n], "ok", 0, 0, f)
       ELSE IF n > d.size
       THEN IF r.out # "ok" THEN r
            ELSE IF ~c.ok
                 THEN Result(SetBlk(r.heap, e.buf, c.blk), r.vecs, "fill", 0, r.lost, 0)
            ELSE Result(SetBlk(r.heap, e.buf, c.blk),
                        [r.vecs EXCEPT ![v].size = n], "ok", 0, r.lost, c.f)
       ELSE Result(h, vs, "ok", 0, 0, f)

\* Vector::operator[](index) used to write an element: v[index] = x
SetAt(h, vs, v, index, x) ==
    Result(SetBlk(h, vs[v].buf, Put(Blk(h, vs[v].buf), index, <<x>>)), vs, "ok", 0, 0, 0)

\* mutant of CopyN: the elements already constructed are taken as assigned
CopyNSkipped(src, n, dst, f) == [ok |-> TRUE, dst |-> dst, f |-> f]

\* std::copy_n(src, n, dst): copy assignment element by element; a throwing
\* assignment of element k leaves the k-1 elements before it assigned
CopyN(src, n, dst, f) ==
    IF 1 <= f /\ f <= n
    THEN [ok |-> FALSE, dst |-> Put(dst, 0, [i \in 1..(f - 1) |-> Val(src[i])]), f |-> 0]
    ELSE [ok |-> TRUE, dst |-> Put(dst, 0, [i \in 1..n |-> Val(src[i])]),
          f |-> After(f, n)]

\* Vector::~Vector and ~RawMemory for storage (p, size): the elements of
\* [0, size) are destroyed, then the block is released
Destruct(h, p, size) ==
    LET h1 == SetBlk(h, p, DestroyN(Blk(h, p), 0, size))
    IN [heap |-> Deallocate(h1, p), lost |-> Abandoned(h1, p)]

\* Vector::~Vector
Destroy(h, vs, v) ==
    LET z == Destruct(h, vs[v].buf, vs[v].size)
    IN Result(z.heap, [vs EXCEPT ![v] = NoVec], "ok", 0, z.lost, 0)

\* Vector::Vector()
DefaultCtor(h, vs, v) == Result(h, [vs EXCEPT ![v] = EmptyVec], "ok", 0, 0, 0)

\* Vector::Vector(size_t size)
SizedCtor(h, vs, v, n, f) ==
    LET a == Allocate(h, n, f)
        c == ValueConstructN(Blk(a.heap, a.p), 0, n, a.f)
    IN IF ~a.ok THEN Result(h, vs, "alloc", 0, 0, 0)
       ELSE IF ~c.ok THEN Abandon(SetBlk(a.heap, a.p, c.blk), vs, a.p, "fill")
       ELSE Result(SetBlk(a.heap, a.p, c.blk),
                   [vs EXCEPT ![v] = [alive |-> TRUE, buf |-> a.p, cap |-> n, size |-> n]],
                   "ok", 0, 0, c.f)

\* mutant of CopyCtor: the copy takes the pointer of the source's block
CopyCtorShallow(h, vs, v, w, f) ==
    Result(h, [vs EXCEPT ![v] = [vs[w] EXCEPT !.alive = TRUE]], "ok", 0, 0, f)

\* Vector::Vector(const Vector& other): v is constructed from w
CopyCtor(h, vs, v, w, f) ==
    LET o == vs[w]
        a == Allocate(h, o.size, f)
        c == UninitializedCopyN(Blk(h, o.buf), 0, o.size, Blk(a.heap, a.p), 0, a.f)
    IN IF ~a.ok THEN Result(h, vs, "alloc", 0, 0, 0)
       ELSE IF ~c.ok THEN Abandon(SetBlk(a.heap, a.p, c.dst), vs, a.p, "copy")
       ELSE Result(SetBlk(a.heap, a.p, c.dst),
                   [vs EXCEPT ![v] = [alive |-> TRUE, buf |-> a.p,
                                      cap |-> o.size, size |-> o.size]],
                   "ok", 0, 0, c.f)

\* mutant of MoveCtor: the size of the source is copied, not exchanged for 0
MoveCtorKeepsSize(h, vs, v, w) ==
    Result(h, [vs EXCEPT ![v] = [vs[w] EXCEPT !.alive = TRUE],
                         ![w] = [EmptyVec EXCEPT !.size = vs[w].size]], "ok", 0, 0, 0)

\* RawMemory::Move through Vector::Vector(Vector&& other): v, whose storage
\* is null, takes the block of w and w is left with none
MoveCtor(h, vs, v, w) ==
    Result(h, [vs EXCEPT ![v] = [vs[w] EXCEPT !.alive = TRUE],
                         ![w] = EmptyVec], "ok", 0, 0, 0)

\* RawMemory::Swap and Vector::Swap(other): v and w exchange block, capacity
\* and size
Swap(h, vs, v, w) ==
    Result(h, [vs EXCEPT ![v] = vs[w], ![w] = vs[v]], "ok", 0, 0, 0)

\* Vector::operator=(Vector&& rhs): v = std::move(w)
MoveAssign(h, vs, v, w) == Swap(h, vs, v, w)

\* mutant of CopyAssign: every assignment copies the source and swaps
CopyAssignBySwap(h, vs, v, w, f) ==
    LET d == vs[v]
        t == CopyCtor(h, vs, v, w, f)
        z == Destruct(t.heap, d.buf, d.size)
    IN IF v = w THEN Result(h, vs, "ok", 0, 0, f)
       ELSE IF t.out # "ok" THEN [t EXCEPT !.vecs = vs]
       ELSE Result(z.heap, t.vecs, "ok", 0, z.lost, t.f)

\* Vector::operator=(const Vector& rhs): v = w
CopyAssign(h, vs, v, w, f) ==
    LET d == vs[v]
        o == vs[w]
        \* Vector copy(rhs); Swap(copy); and the end of copy's scope
        t == CopyCtor(h, vs, v, w, f)
        z == Destruct(t.heap, d.buf, d.size)
        \* the in-place branch
        n == Min(o.size, d.size)
        c == CopyN(Blk(h, o.buf), n, Blk(h, d.buf), f)
        u == UninitializedCopyN(Blk(h, o.buf), d.size, o.size - d.size,
                                c.dst, d.size, c.f)
    IN IF v = w THEN Result(h, vs, "ok", 0, 0, f)
       ELSE IF o.size > d.cap
       THEN IF t.out # "ok" THEN [t EXCEPT !.vecs = vs]
            ELSE Result(z.heap, t.vecs, "ok", 0, z.lost, t.f)
       ELSE IF ~c.ok THEN Result(SetBlk(h, d.buf, c.dst), vs, "assign", 0, 0, 0)
       ELSE IF o.size < d.size
       THEN Result(SetBlk(h, d.buf, DestroyN(c.dst, o.size, d.size - o.size)),
                   [vs EXCEPT ![v].size = o.size], "ok", 0, 0, c.f)
       ELSE IF ~u.ok THEN Result(SetBlk(h, d.buf, u.dst), vs, "copy", 0, 0, 0)
       ELSE Result(SetBlk(h, d.buf, u.dst), [vs EXCEPT ![v].size = o.size],
                   "ok", 0, 0, u.f)

\* ------------------------------------------------------------- observers
\* Size(), Capacity() and operator[] over [0, size)
Size(vs, v) == vs[v].size
Capacity(vs, v) == vs[v].cap
Elems(h, vs, v) == [i \in 1..vs[v].size |-> Blk(h, vs[v].buf)[i]]

View(h, vs, v) ==
    [alive |-> vs[v].alive, buf |-> vs[v].buf, cap |-> vs[v].cap,
     size |-> vs[v].size, elems |-> Elems(h, vs, v)]

\* --------------------------------------------------------------- actions
\* between calls: no call is on record
NoCall ==
    [op |-> "none", v |-> 0, w |-> 0, idx |-> 0, val |-> 0, out |-> "ok",
     ret |-> 0, lost |-> 0, heap |-> <<>>,
     pre |-> [u \in Vecs |-> [alive |-> FALSE, buf |-> 0, cap |-> 0, size |-> 0,
                              elems |-> <<>>]]]

\* a call is made between calls; a behaviour is followed up to its
\* MaxThrows-th call that ends by an exception
Idle == last = NoCall /\ ghost.thrown < MaxThrows

\* a call's step: the state the call leaves, and in `last` what was called,
\* with what, how it ended and the vectors as they were before the call
Commit(r, op, v, w, idx, x, gh) ==
    /\ heap' = r.heap
    /\ vecs' = r.vecs
    /\ traits' = traits
    /\ ghost' = [gh EXCEPT !.thrown = IF r.out = "ok" THEN @ ELSE @ + 1]
    /\ last' = [op |-> op, v |-> v, w |-> w, idx |-> idx, val |-> x,
                out |-> r.out, ret |-> r.ret, lost |-> r.lost, heap |-> heap,
                pre |-> [u \in Vecs |-> View(heap, vecs, u)]]

\* the fallible step of a call that throws: 0 for none, at most the k-th
FailAt(k) == 0..k

\* input f > 0 names a step that throws: the call has such a step
Throws(f, r) == f > 0 => r.out # "ok"

\* the model's vectors stay within MaxCap slots of capacity in all
RECURSIVE TotalCap(_, _)
TotalCap(vs, n) == IF n = 0 THEN 0 ELSE vs[n].cap + TotalCap(vs, n - 1)
Fits(r) == TotalCap(r.vecs, NVec) <= MaxCap

ReserveAct(v) ==
    /\ Idle
    /\ \E n \in 0..MaxCap : \E f \in FailAt(vecs[v].size + 1) :
           \E r \in {Reserve(heap, vecs, v, n, f, traits)} :
              /\ vecs[v].alive /\ Throws(f, r) /\ Fits(r)
              /\ Commit(r, "Reserve", v, 0, n, 0, ghost)

PushBackAct(v) ==
    /\ Idle
    /\ \E x \in Values : \E f \in FailAt(vecs[v].size + 2) :
           \E r \in {PushBack(heap, vecs, v, x, f, traits)} :
              /\ vecs[v].alive /\ traits.copyable /\ Throws(f, r) /\ Fits(r)
              /\ Commit(r, "PushBack", v, 0, 0, x, ghost)

PushBackRvAct(v) ==
    /\ Idle
    /\ \E x \in Values : \E f \in FailAt(vecs[v].size + 2) :
           \E r \in {PushBackRv(heap, vecs, v, x, f, traits)} :
              /\ vecs[v].alive /\ Throws(f, r) /\ Fits(r)
              /\ Commit(r, "PushBackRv", v, 0, 0, x, ghost)

EmplaceBackAct(v) ==
    /\ Idle
    /\ \E x \in Values : \E f \in FailAt(vecs[v].size + 2) :
           \E r \in {EmplaceBack(heap, vecs, v, x, f, traits)} :
              /\ vecs[v].alive /\ Throws(f, r) /\ Fits(r)
              /\ Commit(r, "EmplaceBack", v, 0, 0, x, ghost)

PopBackAct(v) ==
    /\ Idle
    /\ /\ vecs[v].alive /\ vecs[v].size > 0
       /\ Commit(PopBack(heap, vecs, v), "PopBack", v, 0, 0, 0, ghost)

EmplaceAct(v) ==
    /\ Idle
    /\ \E i \in 0..vecs[v].size : \E x \in Values : \E f \in FailAt(vecs[v].size + 2) :
           \E r \in {Emplace(heap, vecs, v, i, x, f, traits)} :
              /\ vecs[v].alive /\ Throws(f, r) /\ Fits(r)
              /\ Commit(r, "Emplace", v, 0, i, x, ghost)

InsertAct(v) ==
    /\ Idle
    /\ \E i \in 0..vecs[v].size : \E x \in Values : \E f \in FailAt(vecs[v].size + 2) :
           \E r \in {Insert(heap, vecs, v, i, x, f, traits)} :
              /\ vecs[v].alive /\ traits.copyable /\ Throws(f, r) /\ Fits(r)
              /\ Commit(r, "Insert", v, 0, i, x, ghost)

EraseAct(v) ==
    /\ Idle
    /\ \E i \in 0..(vecs[v].size - 1) : \E f \in FailAt(vecs[v].size - 1) :
           \E r \in {Erase(heap, vecs, v, i, f, traits)} :
              /\ vecs[v].alive /\ Throws(f, r) /\ Fits(r)
              /\ Commit(r, "Erase", v, 0, i, 0, ghost)

ResizeAct(v) ==
    /\ Idle
    /\ \E n \in 0..MaxCap : \E f \in FailAt(n + 1) :
           \E r \in {Resize(heap, vecs, v, n, f, traits)} :
              /\ vecs[v].alive /\ Throws(f, r) /\ Fits(r)
              /\ Commit(r, "Resize", v, 0, n, 0, ghost)

DestroyAct(v) ==
    /\ Idle
    /\ vecs[v].alive
    /\ Commit(Destroy(heap, vecs, v), "Destroy", v, 0, 0, 0, ghost)

DefaultCtorAct(v) ==
    /\ Idle
    /\ ~vecs[v].alive
    /\ Commit(DefaultCtor(heap, vecs, v), "DefaultCtor", v, 0, 0, 0, ghost)

SizedCtorAct(v) ==
    /\ Idle
    /\ \E n \in 0..MaxCap : \E f \in FailAt(n + 1) :
           \E r \in {SizedCtor(heap, vecs, v, n, f)} :
              /\ ~vecs[v].alive /\ Throws(f, r) /\ Fits(r)
              /\ Commit(r, "SizedCtor", v, 0, n, 0, ghost)

CopyCtorAct(v) ==
    /\ Idle
    /\ \E w \in Vecs \ {v} : \E f \in FailAt(vecs[w].size + 1) :
           \E r \in {CopyCtor(heap, vecs, v, w, f)} :
              /\ ~vecs[v].alive /\ vecs[w].alive /\ traits.copyable /\ Throws(f, r) /\ Fits(r)
              /\ Commit(r, "CopyCtor", v, w, 0, 0, ghost)

MoveCtorAct(v) ==
    /\ Idle
    /\ \E w \in Vecs \ {v} :
           /\ ~vecs[v].alive /\ vecs[w].alive
           /\ Commit(MoveCtor(heap, vecs, v, w), "MoveCtor", v, w, 0, 0, ghost)

CopyAssignAct(v) ==
    /\ Idle
    /\ \E w \in Vecs : \E f \in FailAt(vecs[w].size + 1) :
           \E r \in {CopyAssign(heap, vecs, v, w, f)} :
              /\ vecs[v].alive /\ vecs[w].alive /\ traits.copyable /\ Throws(f, r) /\ Fits(r)
              /\ Commit(r, "CopyAssign", v, w, 0, 0, ghost)

MoveAssignAct(v) ==
    /\ Idle
    /\ \E w \in Vecs :
           /\ vecs[v].alive /\ vecs[w].alive
           /\ Commit(MoveAssign(heap, vecs, v, w), "MoveAssign", v, w, 0, 0, ghost)

SwapAct(v) ==
    /\ Idle
    /\ \E w \in Vecs :
           /\ vecs[v].alive /\ vecs[w].alive
           /\ Commit(Swap(heap, vecs, v, w), "Swap", v, w, 0, 0, ghost)

\* the calls of a run of appends and pops on vector 1 that all return; the
\* run is counted in ghost: the appends, the pops and the values appended and
\* not yet popped
Pushed(x) == [ghost EXCEPT !.pushes = @ + 1, !.stack = @ \o <<x>>]
Popped == [ghost EXCEPT !.pops = @ + 1, !.stack = SubSeq(@, 1, Len(@) - 1)]

RunPushBack ==
    /\ Idle /\ ghost.pushes < MaxAppends /\ traits.copyable
    /\ \E x \in Values : \E r \in {PushBack(heap, vecs, 1, x, 0, traits)} :
           Fits(r) /\ Commit(r, "PushBack", 1, 0, 0, x, Pushed(x))

RunPushBackRv ==
    /\ Idle /\ ghost.pushes < MaxAppends
    /\ \E x \in Values : \E r \in {PushBackRv(heap, vecs, 1, x, 0, traits)} :
           Fits(r) /\ Commit(r, "PushBackRv", 1, 0, 0, x, Pushed(x))

RunEmplaceBack ==
    /\ Idle /\ ghost.pushes < MaxAppends
    /\ \E x \in Values : \E r \in {EmplaceBack(heap, vecs, 1, x, 0, traits)} :
           Fits(r) /\ Commit(r, "EmplaceBack", 1, 0, 0, x, Pushed(x))

RunPopBack ==
    /\ Idle /\ vecs[1].size > 0
    /\ Commit(PopBack(heap, vecs, 1), "PopBack", 1, 0, 0, 0, Popped)

\* the caller has seen how the call ended and goes on
Observe ==
    /\ last # NoCall
    /\ last' = NoCall
    /\ UNCHANGED <<heap, vecs, traits, ghost>>

SetAtAct(v) ==
    /\ Idle
    /\ \E i \in 0..(vecs[v].size - 1) : \E x \in Values :
           /\ vecs[v].alive
           /\ Commit(SetAt(heap, vecs, v, i, x), "SetAt", v, 0, i, x, ghost)

\* calls whose argument refers to element j of the vector they are made on;
\* the call on record holds j in val
PushBackOwnAct(v) ==
    /\ Idle
    /\ \E j \in 0..(vecs[v].size - 1) : \E f \in FailAt(vecs[v].size + 2) :
           \E r \in {PushBackOwn(heap, vecs, v, j, f, traits)} :
              /\ vecs[v].alive /\ traits.copyable /\ Throws(f, r) /\ Fits(r)
              /\ Commit(r, "PushBackOwn", v, 0, 0, j, ghost)

InsertOwnAct(v) ==
    /\ Idle
    /\ \E i \in 0..vecs[v].size : \E j \in 0..(vecs[v].size - 1) :
         \E f \in FailAt(vecs[v].size + 2) :
           \E r \in {InsertOwn(heap, vecs, v, i, j, f, traits)} :
              /\ vecs[v].alive /\ traits.copyable /\ Throws(f, r) /\ Fits(r)
              /\ Commit(r, "InsertOwn", v, 0, i, j, ghost)

\* ---------------------------------------------------------- specifications
Init ==
    /\ heap = [b \in Blocks |-> <<>>]
    /\ vecs = [u \in Vecs |-> IF u = 1 THEN EmptyVec ELSE NoVec]
    /\ traits \in [nothrowMove : BOOLEAN, copyable : BOOLEAN]
    /\ ghost = [pushes |-> 0, pops |-> 0, stack |-> <<>>, thrown |-> 0]
    /\ last = NoCall

\* one vector and its member functions
NextVector ==
    \/ ReserveAct(1)
    \/ PushBackAct(1)
    \/ PushBackRvAct(1)
    \/ EmplaceBackAct(1)
    \/ PopBackAct(1)
    \/ EmplaceAct(1)
    \/ InsertAct(1)
    \/ EraseAct(1)
    \/ ResizeAct(1)
    \/ SetAtAct(1)
    \/ Observe

SpecVector == Init /\ [][NextVector]_vars

\* vector 1, empty at first, under appends and pops only
NextAppend ==
    \/ RunPushBack
    \/ RunPushBackRv
    \/ RunEmplaceBack
    \/ RunPopBack
    \/ Observe

SpecAppend == Init /\ [][NextAppend]_vars

\* one vector, built by Reserve, EmplaceBack, PopBack and element writes, and
\* the calls whose argument is one of its own elements
NextOwn ==
    \/ ReserveAct(1)
    \/ EmplaceBackAct(1)
    \/ PopBackAct(1)
    \/ SetAtAct(1)
    \/ PushBackOwnAct(1)
    \/ InsertOwnAct(1)
    \/ Observe

SpecOwn == Init /\ [][NextOwn]_vars

\* every vector with every constructor, the destructor and every member
Next ==
    \/ \E v \in Vecs : ReserveAct(v)
    \/ \E v \in Vecs : PushBackAct(v)
    \/ \E v \in Vecs : PushBackRvAct(v)
    \/ \E v \in Vecs : EmplaceBackAct(v)
    \/ \E v \in Vecs : PopBackAct(v)
    \/ \E v \in Vecs : EmplaceAct(v)
    \/ \E v \in Vecs : InsertAct(v)
    \/ \E v \in Vecs : EraseAct(v)
    \/ \E v \in Vecs : ResizeAct(v)
    \/ \E v \in Vecs : SetAtAct(v)
    \/ \E v \in Vecs : DestroyAct(v)
    \/ \E v \in Vecs : DefaultCtorAct(v)
    \/ \E v \in Vecs : SizedCtorAct(v)
    \/ \E v \in Vecs : CopyCtorAct(v)
    \/ \E v \in Vecs : MoveCtorAct(v)
    \/ \E v \in Vecs : CopyAssignAct(v)
    \/ \E v \in Vecs : MoveAssignAct(v)
    \/ \E v \in Vecs : SwapAct(v)
    \/ Observe

Spec == Init /\ [][Next]_vars

\* ------------------------------------------------------------------ claims
\* the vector the recorded call was made on, before and after the call
PreV == last.pre[last.v]
PostV == View(heap, vecs, last.v)

Appends == {"PushBack", "PushBackRv", "EmplaceBack"}
Inserts == {"Emplace", "Insert"}

\* size, capacity and the elements in order are as before the call
SameVector ==
    /\ PostV.size = PreV.size
    /\ PostV.cap = PreV.cap
    /\ PostV.elems = PreV.elems

\* every element of [0, size) is a live object
AllLive(view) == \A i \in 1..view.size : view.elems[i] # RAW

InsertAt(s, i, x) == SubSeq(s, 1, i) \o <<x>> \o SubSeq(s, i + 1, Len(s))
RemoveAt(s, i) == SubSeq(s, 1, i) \o SubSeq(s, i + 2, Len(s))

\* C1: when the construction of the new element throws in PushBack or
\* EmplaceBack, reallocating or in place, the vector has the size, the capacity
\* and the elements in the order it had before the call
C1_AppendConstructThrows ==
    (last.op \in Appends /\ last.out = "construct") => SameVector

\* C1 witness: the new element's constructor threw in a reallocating PushBack
\* on a full vector of two elements
C1_Witness ==
    /\ last.op = "PushBack" /\ last.out = "construct"
    /\ PreV.size = 2 /\ PreV.cap = 2
    /\ PreV.elems = <<1, 0>>

\* C2, for an element type that is migrated by copy: when the migration of the
\* suffix throws in a reallocating Emplace/Insert at index < size, the new
\* block holds no live object when it is released and the vector has its size
\* and capacity and, in every slot of [0, size), the live element it held
\* before the call
C2_SuffixThrowsOldIntact ==
    (last.op \in Inserts /\ last.out = "suffix" /\ traits.copyable)
        => (last.lost = 0 /\ SameVector /\ AllLive(PostV))

\* C3 as stated: a failed Reserve, by allocation or by a throwing element
\* constructor during migration, leaves size, capacity and elements as before
C3_ReserveStrong ==
    (last.op = "Reserve" /\ last.out # "ok") => SameVector

\* C3 amended: a Reserve that fails by allocation, or by a throwing copy while
\* a copy-constructible element type is migrated, leaves size, capacity and
\* elements as before
C3_ReserveStrongCopyable ==
    (last.op = "Reserve" /\ last.out # "ok"
        /\ (last.out = "alloc" \/ traits.copyable)) => SameVector

\* C3 witness: copying the second of two elements threw during Reserve(4)
C3_Witness ==
    /\ last.op = "Reserve" /\ last.out = "migrate" /\ traits.copyable
    /\ last.idx = 4 /\ PreV.size = 2 /\ PreV.elems = <<0, 1>>

\* C4: a successful Emplace/Insert of x at index i <= size yields the elements
\* before i, then x, then the elements from i on, adds one to size and
\* returns position i
C4_EmplaceInsertsAt ==
    (last.op \in Inserts /\ last.out = "ok" /\ AllLive(PreV))
        => /\ PostV.elems = InsertAt(PreV.elems, last.idx, last.val)
           /\ PostV.size = PreV.size + 1
           /\ last.ret = last.idx

\* C4 witness: an in-place Emplace in the middle of three elements
C4_Witness ==
    /\ last.op = "Emplace" /\ last.out = "ok"
    /\ PreV.size = 3 /\ PreV.cap = 4 /\ last.idx = 1
    /\ PreV.elems = <<0, 1, 0>> /\ last.val = 1

\* C5: a successful Erase at index i < size yields the elements before i
\* followed by the elements after i, takes one from size, keeps the capacity
\* and returns position i
C5_EraseRemovesAt ==
    (last.op = "Erase" /\ last.out = "ok" /\ AllLive(PreV))
        => /\ PostV.elems = RemoveAt(PreV.elems, last.idx)
           /\ PostV.size = PreV.size - 1
           /\ PostV.cap = PreV.cap
           /\ last.ret = last.idx
           /\ (PreV.size = 1 => PostV.size = 0)

\* C5 witness: Erase of the second of four elements
C5_Witness ==
    /\ last.op = "Erase" /\ last.out = "ok"
    /\ PreV.size = 4 /\ last.idx = 1 /\ PreV.elems = <<0, 1, 0, 1>>

\* the smallest power of two that is at least n
RECURSIVE PowerOfTwoFrom(_, _)
PowerOfTwoFrom(c, n) == IF c >= n THEN c ELSE PowerOfTwoFrom(2 * c, n)
SmallestPowerOfTwo(n) == PowerOfTwoFrom(1, n)

\* C6: in a run of appends and pops from the empty vector, size is the number
\* of appends less the number of pops, the elements are the values appended
\* and not yet popped in the order they were appended, and a pop removes the
\* last of them
C6_SizeIsPushesLessPops ==
    /\ Size(vecs, 1) = ghost.pushes - ghost.pops
    /\ Elems(heap, vecs, 1) = ghost.stack
    /\ last.op = "PopBack" => PreV.elems = PostV.elems \o <<PreV.elems[PreV.size]>>

\* C6 witness: after four appends and two pops, the last call a pop
C6_Witness ==
    /\ ghost.pushes = 4 /\ ghost.pops = 2 /\ last.op = "PopBack"
    /\ Elems(heap, vecs, 1) = <<1, 0>> /\ PreV.elems = <<1, 0, 1>>

\* C7: after N >= 1 appends from the empty vector the capacity is the smallest
\* power of two >= N; an append that finds size = capacity makes the capacity
\* 1 if it was 0 and twice what it was otherwise, an append that finds
\* size < capacity leaves it
C7_CapacityDoubles ==
    /\ (ghost.pops = 0 /\ ghost.pushes >= 1) =>
            Capacity(vecs, 1) = SmallestPowerOfTwo(ghost.pushes)
    /\ (last.op \in Appends /\ PreV.size = PreV.cap) =>
            PostV.cap = IF PreV.cap = 0 THEN 1 ELSE 2 * PreV.cap
    /\ (last.op \in Appends /\ PreV.size < PreV.cap) => PostV.cap = PreV.cap

\* C7 witness: the third append in a row made capacity 2 into capacity 4
C7_Witness ==
    /\ ghost.pushes = 3 /\ ghost.pops = 0 /\ last.op \in Appends
    /\ PreV.cap = 2 /\ Capacity(vecs, 1) = 4

Moves == {"MoveCtor", "MoveAssign"}

\* C8 as stated: after a move construction or a move assignment from another
\* vector the source has size 0 and the destination holds the former elements
\* of the source in their order
C8_MoveEmptiesSource ==
    (last.op \in Moves /\ last.v # last.w)
        => /\ Size(vecs, last.w) = 0
           /\ Elems(heap, vecs, last.v) = last.pre[last.w].elems

\* C8 amended: a move construction leaves the source with size 0 and capacity
\* 0 and gives its block to the destination; a move assignment exchanges the
\* blocks, capacities and sizes of the two vectors, so the source then holds
\* what the destination held; in both the destination holds the former
\* elements of the source in their order and no slot of the heap changes
C8_MoveTransfersStorage ==
    (last.op \in Moves /\ last.v # last.w)
        => /\ Elems(heap, vecs, last.v) = last.pre[last.w].elems
           /\ vecs[last.v].buf = last.pre[last.w].buf
           /\ vecs[last.v].cap = last.pre[last.w].cap
           /\ heap = last.heap
           /\ last.op = "MoveCtor" =>
                (Size(vecs, last.w) = 0 /\ Capacity(vecs, last.w) = 0)
           /\ last.op = "MoveAssign" =>
                /\ Elems(heap, vecs, last.w) = last.pre[last.v].elems
                /\ vecs[last.w].buf = last.pre[last.v].buf
                /\ vecs[last.w].cap = last.pre[last.v].cap

\* C8 witness: a move assignment from a vector of two elements to a vector
\* of one
C8_Witness ==
    /\ last.op = "MoveAssign" /\ last.v # last.w
    /\ last.pre[last.w].elems = <<0, 1>> /\ last.pre[last.v].elems = <<1>>

\* the calls that change one vector
Mutators ==
    Appends \cup Inserts \cup {"SetAt", "PopBack", "Erase", "Resize", "Reserve"}

\* C9: a successful copy construction or copy assignment from another vector
\* whose elements are all live objects gives the copy the size and the
\* elements of the source, in a block of its own, and leaves the source as it
\* was; two vectors never share a block; and
\* a mutating call on one vector, however it ends, leaves the size and the
\* elements of every other vector as they were
C9_CopyIsIndependent ==
    /\ (last.op \in {"CopyCtor", "CopyAssign"} /\ last.out = "ok" /\ last.v # last.w
            /\ AllLive(last.pre[last.w]))
        => /\ Size(vecs, last.v) = Size(vecs, last.w)
           /\ Elems(heap, vecs, last.v) = last.pre[last.w].elems
           /\ View(heap, vecs, last.w) = last.pre[last.w]
    /\ \A u, t \in Vecs : (u # t /\ vecs[u].buf # 0) => vecs[u].buf # vecs[t].buf
    /\ last.op \in Mutators =>
            \A u \in Vecs \ {last.v} : View(heap, vecs, u) = last.pre[u]

\* C9 witness: a write to the first element of one of two vectors that held
\* the same two elements
C9_Witness ==
    /\ last.op = "SetAt" /\ last.v = 2 /\ last.idx = 0 /\ last.val = 1
    /\ last.pre[1].elems = <<0, 1>> /\ last.pre[2].elems = <<0, 1>>
    /\ Elems(heap, vecs, 1) = <<0, 1>> /\ Elems(heap, vecs, 2) = <<1, 1>>

\* C10: a successful Resize(n) makes size n; growing keeps the elements and
\* appends n - size default values; shrinking keeps the first n elements and
\* the capacity and leaves no object in the slots [n, size); n = size changes
\* neither size, capacity nor elements
C10_Resize ==
    (last.op = "Resize" /\ last.out = "ok" /\ AllLive(PreV))
        => /\ PostV.size = last.idx
           /\ last.idx > PreV.size =>
                PostV.elems = PreV.elems \o [i \in 1..(last.idx - PreV.size) |-> DefaultVal]
           /\ last.idx < PreV.size =>
                /\ PostV.elems = SubSeq(PreV.elems, 1, last.idx)
                /\ PostV.cap = PreV.cap
                /\ PostV.buf = PreV.buf
                /\ \A i \in (last.idx + 1)..PreV.size : Blk(heap, PostV.buf)[i] = RAW
           /\ last.idx = PreV.size => (SameVector /\ PostV.buf = PreV.buf)

\* C10 witness: Resize(4) of a full vector of two elements
C10_Witness ==
    /\ last.op = "Resize" /\ last.out = "ok"
    /\ last.idx = 4 /\ PreV.size = 2 /\ PreV.cap = 2 /\ PreV.elems = <<1, 1>>

\* C11: a successful Reserve(n) leaves the size and the elements in their
\* order and ends with capacity >= n; with n <= capacity it changes neither
\* the capacity nor the block nor any slot of the heap; with n > capacity the
\* capacity is n
C11_ReserveKeepsElements ==
    (last.op = "Reserve" /\ last.out = "ok" /\ AllLive(PreV))
        => /\ PostV.size = PreV.size
           /\ PostV.elems = PreV.elems
           /\ PostV.cap >= last.idx
           /\ last.idx <= PreV.cap =>
                (PostV.cap = PreV.cap /\ PostV.buf = PreV.buf /\ heap = last.heap)
           /\ last.idx > PreV.cap => PostV.cap = last.idx

\* C11 witness: Reserve(3) of a full vector of two elements
C11_Witness ==
    /\ last.op = "Reserve" /\ last.out = "ok" /\ last.idx = 3
    /\ PreV.cap = 2 /\ PreV.elems = <<0, 1>> /\ PostV.cap = 3

\* C12: after a successful copy assignment v = w from a vector whose elements
\* are live, v has the size and the elements of w in their order and w is as
\* it was; when w's size is at most v's capacity, v keeps its capacity and
\* its block; an assignment of a vector to itself changes nothing
C12_CopyAssign ==
    (last.op = "CopyAssign" /\ last.out = "ok" /\ AllLive(last.pre[last.w]))
        => /\ PostV.size = last.pre[last.w].size
           /\ PostV.elems = last.pre[last.w].elems
           /\ View(heap, vecs, last.w) = last.pre[last.w]
           /\ last.pre[last.w].size <= PreV.cap =>
                (PostV.cap = PreV.cap /\ PostV.buf = PreV.buf)
           /\ last.pre[last.w].size > PreV.cap => PostV.cap = last.pre[last.w].size
           /\ last.v = last.w => heap = last.heap

\* C12 witness: an assignment in place from a vector of two elements to a
\* vector of one element and capacity two
C12_Witness ==
    /\ last.op = "CopyAssign" /\ last.out = "ok" /\ last.v # last.w
    /\ PreV.elems = <<1>> /\ PreV.cap = 2
    /\ last.pre[last.w].elems = <<0, 1>>

\* the calls that allocate storage for an existing vector
Allocating == Appends \cup Inserts \cup {"Reserve", "Resize", "CopyAssign"}

\* C13: when the allocation inside Reserve, a growing Resize, a reallocating
\* PushBack, EmplaceBack, Emplace or Insert, or a copy assignment fails, the
\* vector has the size, the capacity, the block and the elements it had
\* before the call and no slot of the heap has changed
C13_AllocationFails ==
    (last.op \in Allocating /\ last.out = "alloc")
        => (SameVector /\ PostV.buf = PreV.buf /\ heap = last.heap)

\* C13 witness: the allocation failed in a copy assignment to a vector too
\* small for the source
C13_Witness ==
    /\ last.op = "CopyAssign" /\ last.out = "alloc"
    /\ PreV.elems = <<1>> /\ PreV.cap = 1 /\ last.pre[last.w].size = 2

\* C14: every constructed vector has size <= capacity, a live element in
\* every slot of [0, size) and no live element in any slot of
\* [size, capacity), also after calls that ended by an exception
C14_ClassInvariant ==
    \A u \in Vecs :
        vecs[u].alive =>
            /\ vecs[u].size <= vecs[u].cap
            /\ \A i \in 1..vecs[u].cap :
                   IF i <= vecs[u].size THEN Blk(heap, vecs[u].buf)[i] # RAW
                   ELSE Blk(heap, vecs[u].buf)[i] = RAW

\* C15: no call releases a block that holds a live element
C15_NoLiveElementReleased == last.lost = 0

\* C16: when copying an existing element into the new block throws in a
\* reallocating PushBack or EmplaceBack of an element type that is migrated by
\* copy, the vector has the size, the capacity, the block and the elements it
\* had before the call and every slot of that block is as it was
C16_CopyMigrationThrows ==
    (last.op \in Appends /\ last.out = "migrate"
        /\ traits.copyable /\ ~traits.nothrowMove)
        => /\ SameVector
           /\ PostV.buf = PreV.buf
           /\ Blk(heap, PostV.buf) = Blk(last.heap, PreV.buf)

\* C16 witness: the copy of the second of two elements threw in a
\* reallocating PushBack
C16_Witness ==
    /\ last.op = "PushBack" /\ last.out = "migrate" /\ traits.copyable
    /\ PreV.size = 2 /\ PreV.cap = 2 /\ PreV.elems = <<0, 1>> /\ last.lost = 1

\* the calls that hand a vector's storage to another vector
Exchanges == {"MoveCtor", "MoveAssign", "Swap"}

\* C17: from one state to the next the capacity of a vector that stays
\* constructed does not decrease, unless the step is a move construction, a
\* move assignment or a Swap that the vector takes part in
C17_CapacityNeverDecreases ==
    [][\A u \in Vecs :
          (/\ vecs[u].alive /\ vecs'[u].alive
           /\ ~(last'.op \in Exchanges /\ u \in {last'.v, last'.w}))
              => vecs'[u].cap >= vecs[u].cap]_vars

\* C17 witness: a copy assignment from a vector of one element to a vector of
\* capacity two, which keeps capacity two
C17_Witness ==
    /\ last.op = "CopyAssign" /\ last.out = "ok" /\ last.v # last.w
    /\ PreV.cap = 2 /\ PreV.size = 2 /\ last.pre[last.w].size = 1
    /\ last.pre[last.w].cap = 1 /\ PostV.cap = 2

\* C18: a successful PushBack(const T&) or Insert(pos, const T&) whose
\* argument refers to element j of the same vector adds an element equal to
\* the value element j had before the call, at the end or at pos, in place and
\* with reallocation alike
C18_OwnElementArgument ==
    /\ (last.op = "PushBackOwn" /\ last.out = "ok" /\ AllLive(PreV))
        => PostV.elems = PreV.elems \o <<PreV.elems[last.val + 1]>>
    /\ (last.op = "InsertOwn" /\ last.out = "ok" /\ AllLive(PreV))
        => PostV.elems = InsertAt(PreV.elems, last.idx, PreV.elems[last.val + 1])

\* C18 witness: an in-place Insert at the front of a reference to the first
\* element, and so to the slot the insertion writes
C18_Witness ==
    /\ last.op = "InsertOwn" /\ last.out = "ok"
    /\ PreV.elems = <<1, 0>> /\ PreV.cap = 4 /\ last.idx = 0 /\ last.val = 0
    /\ PostV.elems = <<1, 1, 0>>

====
